---- MODULE Spec2Model ----
(***************************************************************************)
(* Model of jmh/qat-java-bench/monitor_qat.py: the QAT telemetry monitor.  *)
(* EnableTelemetry() rebuilds the global lists devices, paths and          *)
(* set_paths from two command outputs; pbar() renders one row per device   *)
(* every tick and calls EnableTelemetry() again on every 5th tick.         *)
(*                                                                         *)
(* Text is modelled as sequences of one-character strings, so that the     *)
(* slice [5:7], the substring test `in`, split(':') and the sort key are   *)
(* computed as Python computes them.  Counter dump tokens are TLA+ strings *)
(* and int()/str() are the inverse pair IntOf/ToString.                    *)
(***************************************************************************)
EXTENDS Integers, Sequences, FiniteSets, TLC

VARIABLES pc, devices, paths, set_paths, adf, original_array, control, et_result,
          cycles, refresh_counter, locals, window, dumps_read, raised,
          stdout, stderr, exit_status

vars == <<pc, devices, paths, set_paths, adf, original_array, control, et_result,
          cycles, refresh_counter, locals, window, dumps_read, raised,
          stdout, stderr, exit_status>>

(***************************************************************************)
(* Bounds of the model.                                                    *)
(***************************************************************************)
MaxTicks == 11
MaxFrags == 4
MaxRaw == 2
MaxNeg == 1

(***************************************************************************)
(* Tokens of the `adf_ctl status` output and telemetry paths.              *)
(***************************************************************************)
QatDev == <<"q","a","t","_","d","e","v">>
Tok_qat_dev0 == <<"q","a","t","_","d","e","v","0">>
Tok_qat_dev1 == <<"q","a","t","_","d","e","v","1">>
Tok_type == <<"t","y","p","e",":">>
Tok_4xxx == <<"4","x","x","x",",">>
Tok_c6xx == <<"c","6","x","x",",">>
Tok_bsf == <<"b","s","f",":">>
Tok_state == <<"s","t","a","t","e",":">>
Tok_up == <<"u","p">>
Tok_down == <<"d","o","w","n">>
Bsf_6b == <<"0","0","0","0",":","6","b",":","0","0",".","0">>
Bsf_70 == <<"0","0","0","0",":","7","0",":","0","0",".","0">>
Bsf_short == <<"0","0","0","0",":">>
Path_6b == <<"/","d","/","0","0","0","0",":","6","b",":","0","0",".","0","/","t","e","l","e","m","e","t","r","y">>
Path_70 == <<"/","d","/","0","0","0","0",":","7","0",":","0","0",".","0","/","t","e","l","e","m","e","t","r","y">>
Path_nocolon == <<"/","d","/","t","e","l","e","m","e","t","r","y">>

\* Python's None: a value no text can be equal to (texts hold single characters).
None == <<"None">>

(***************************************************************************)
(* Python string primitives.                                               *)
(***************************************************************************)
Min(a, b) == IF a <= b THEN a ELSE b

Range(s) == {s[k] : k \in 1..Len(s)}

\* t[a:b] for 0 <= a <= b: never raises, clips at the end of t.
Slice(t, a, b) == IF a + 1 > Min(b, Len(t)) THEN <<>> ELSE SubSeq(t, a + 1, Min(b, Len(t)))

\* `s in t` for two strings.
IsSubstring(s, t) == \E k \in 0..(Len(t) - Len(s)) : \A j \in 1..Len(s) : t[k + j] = s[j]

\* ord(c) for the characters that occur in paths.
Ord(c) ==
  CASE c = "." -> 46 [] c = "/" -> 47 [] c = "0" -> 48 [] c = "6" -> 54
    [] c = "7" -> 55 [] c = ":" -> 58 [] c = "b" -> 98 [] c = "d" -> 100
    [] c = "e" -> 101 [] c = "l" -> 108 [] c = "m" -> 109 [] c = "r" -> 114
    [] c = "t" -> 116 [] c = "y" -> 121 [] OTHER -> 0

\* a <= b in Python's string order.
StrLeq(a, b) ==
  \/ \E k \in 1..Min(Len(a), Len(b)) :
        /\ \A j \in 1..(k - 1) : a[j] = b[j]
        /\ Ord(a[k]) < Ord(b[k])
  \/ /\ Len(a) <= Len(b)
     /\ \A j \in 1..Len(a) : a[j] = b[j]

Colons(x) == {k \in 1..Len(x) : x[k] = ":"}

MinOf(S) == CHOOSE m \in S : \A n \in S : m <= n

\* x.split(':')[1] raises IndexError when x holds no colon.
HasSortKey(x) == Colons(x) # {}

\* x.split(':')[1]: the text between the first colon and the next one (or the end).
SortKey(x) ==
  LET first == MinOf(Colons(x))
      rest == {k \in Colons(x) : k > first}
      last == IF rest = {} THEN Len(x) ELSE MinOf(rest) - 1
  IN Slice(x, first, last)

\* An insertion that loses a line that does not belong at the end.
InsertSorted_m(x, s) ==
  IF s = <<>> THEN <<x>>
  ELSE IF StrLeq(SortKey(s[Len(s)]), SortKey(x)) THEN Append(s, x)
  ELSE s

\* list.insert of x behind the last entry whose key is <= key(x): sorted() is stable.
RECURSIVE InsertSorted(_, _)
InsertSorted(x, s) ==
  IF s = <<>> THEN <<x>>
  ELSE IF StrLeq(SortKey(s[Len(s)]), SortKey(x)) THEN Append(s, x)
  ELSE Append(InsertSorted(x, SubSeq(s, 1, Len(s) - 1)), s[Len(s)])

\* sorted(original_array, key=lambda x: (x.split(':')[1], 16))
RECURSIVE Sorted(_)
Sorted(s) ==
  IF s = <<>> THEN <<>>
  ELSE InsertSorted(s[Len(s)], Sorted(SubSeq(s, 1, Len(s) - 1)))

(***************************************************************************)
(* Device list: the token loop over output_adf (lines 44-69).              *)
(* A loop state is [out, i, name, bus, telemetry_supported, err] plus the  *)
(* device list built so far.                                               *)
(***************************************************************************)
AdfStart(out) ==
  [out |-> out, i |-> 0, name |-> None, bus |-> None,
   telemetry_supported |-> FALSE, err |-> FALSE]

\* output_adf[i+1] exists.
HasNext(a) == a.i + 2 <= Len(a.out)

\* "4xxx," == output_adf[i+1]
SupportedType(t) == t = Tok_4xxx

\* The slice one character early.
BusOf_m(t) == Slice(t, 4, 6)

\* output_adf[i+1][5:7]
BusOf(t) == Slice(t, 5, 7)

\* Every state but "down" taken for up.
IsUp_m(t) == t # Tok_down

\* "up" == output_adf[i+1]
IsUp(t) == t = Tok_up

\* One iteration of `while i < len(output_adf)`: the new locals.
AdfStep(a) ==
  LET t == a.out[a.i + 1]
      nxt == a.out[a.i + 2]
      adv == [a EXCEPT !.i = @ + 1]
  IN IF IsSubstring(QatDev, t) THEN [adv EXCEPT !.name = t]
     ELSE IF t = Tok_type THEN
       IF ~HasNext(a) THEN [a EXCEPT !.err = TRUE]
       ELSE IF SupportedType(nxt) THEN [adv EXCEPT !.telemetry_supported = TRUE]
       ELSE adv
     ELSE IF t = Tok_bsf THEN
       IF ~HasNext(a) THEN [a EXCEPT !.err = TRUE]
       ELSE [adv EXCEPT !.bus = BusOf(nxt)]
     ELSE IF t = Tok_state THEN
       IF ~HasNext(a) THEN [a EXCEPT !.err = TRUE]
       ELSE [adv EXCEPT !.name = None, !.bus = None, !.telemetry_supported = FALSE]
     ELSE adv

\* devices.append((name, bus)) happens in this iteration.
Appends(a) ==
  /\ a.out[a.i + 1] = Tok_state
  /\ HasNext(a)
  /\ IsUp(a.out[a.i + 2])
  /\ a.telemetry_supported

\* One iteration: the device list afterwards.
DevStep(a, devs) == IF Appends(a) THEN Append(devs, <<a.name, a.bus>>) ELSE devs

\* The loop has ended, by i reaching len(output_adf) or by an IndexError.
AdfDone(a) == a.err \/ a.i >= Len(a.out)

\* The whole loop from a loop state: [a |-> final locals, devs |-> final list].
RECURSIVE AdfLoop(_, _)
AdfLoop(a, devs) ==
  IF AdfDone(a) THEN [a |-> a, devs |-> devs]
  ELSE AdfLoop(AdfStep(a), DevStep(a, devs))

(***************************************************************************)
(* Endpoint list: the correlation loops (lines 76-84).                     *)
(***************************************************************************)
\* The operands of `in` exchanged.
In_m(bus, path) == IsSubstring(path, bus)

\* devices[i][1] in path
In(bus, path) == IsSubstring(bus, path)

\* `None in path` raises TypeError.
InRaises(bus) == bus = None

\* The inner while loop for one path: the entries appended, or a TypeError.
RECURSIVE MatchDevices(_, _, _)
MatchDevices(path, devs, i) ==
  IF i > Len(devs) THEN [err |-> FALSE, add |-> <<>>]
  ELSE IF InRaises(devs[i][2]) THEN [err |-> TRUE, add |-> <<>>]
  ELSE LET r == MatchDevices(path, devs, i + 1)
       IN IF In(devs[i][2], path) THEN [r EXCEPT !.add = <<path>> \o @] ELSE r

\* for path in paths: ...: the list built, or what was built before a TypeError.
RECURSIVE Correlate(_, _, _)
Correlate(ps, devs, k) ==
  IF k > Len(ps) THEN [err |-> FALSE, sp |-> <<>>]
  ELSE LET m == MatchDevices(ps[k], devs, 1)
       IN IF m.err THEN [err |-> TRUE, sp |-> m.add]
          ELSE LET r == Correlate(ps, devs, k + 1)
               IN [r EXCEPT !.sp = m.add \o @]

\* The test of line 86 left out: the call never quits.
NoEndpoints_m(sp) == FALSE

\* len(set_paths) == 0
NoEndpoints(sp) == Len(sp) = 0

\* One `echo 1 > path/control`: [path, ok].  The loop leaves at the first failure.
EnableWrites(sp, failAt) ==
  [k \in 1..(IF failAt = 0 THEN Len(sp) ELSE failAt) |->
     [path |-> sp[k], ok |-> k # failAt]]

\* The clear() left out: the list keeps what the last call put in it.
Clear_m(list) == list

\* devices.clear(), paths.clear(), set_paths.clear() (lines 15, 29, 77)
Clear(list) == <<>>

\* The three global lists as a call finds them.
Lists(d, p, sp) == [devices |-> d, paths |-> p, set_paths |-> sp]

(***************************************************************************)
(* EnableTelemetry() (lines 13-98) on the two command outputs: `status` is *)
(* the token list of `adf_ctl status`, `found` the list printed by find,   *)
(* `old` the global lists before the call.                                 *)
(* The result holds the globals and locals as the call leaves them and how *)
(* it left: "ok" (it goes on to the control writes of lines 90-98 and      *)
(* returns), "quit" (line 88) or "exception".                              *)
(***************************************************************************)
EnableTelemetry(status, found, old) ==
  LET parsed == AdfLoop(AdfStart(status), Clear(old.devices))
      ps == Clear(old.paths) \o Sorted(found)
      cor == Correlate(ps, parsed.devs, 1)
      sp == Clear(old.set_paths) \o cor.sp
  IN IF \E k \in 1..Len(found) : ~HasSortKey(found[k]) THEN
       [result |-> "exception", devices |-> Clear(old.devices), paths |-> Clear(old.paths),
        set_paths |-> old.set_paths, adf |-> AdfStart(status), original_array |-> found]
     ELSE IF parsed.a.err THEN
       [result |-> "exception", devices |-> parsed.devs, paths |-> Clear(old.paths),
        set_paths |-> old.set_paths, adf |-> parsed.a, original_array |-> found]
     ELSE IF cor.err THEN
       [result |-> "exception", devices |-> parsed.devs, paths |-> ps,
        set_paths |-> sp, adf |-> parsed.a, original_array |-> found]
     ELSE IF NoEndpoints(sp) THEN
       [result |-> "quit", devices |-> parsed.devs, paths |-> ps,
        set_paths |-> sp, adf |-> parsed.a, original_array |-> found]
     ELSE
       [result |-> "ok", devices |-> parsed.devs, paths |-> ps,
        set_paths |-> sp, adf |-> parsed.a, original_array |-> found]

\* print("No telemetry supported QAT endpoints found... exiting.")
NoEndpointsMsg == "No telemetry supported QAT endpoints found... exiting."

\* An uncaught exception at top level: the interpreter's traceback.
Traceback == "Traceback (most recent call last)"

(***************************************************************************)
(* Counter dumps: the token loop of pbar (lines 128-173).  The locals that *)
(* hold the raw values are indexed by the key that assigns them (latency   *)
(* by lat_acc_avg, compression by util_cpr0, decompression0 by util_dcpr0, *)
(* ...).  They are locals of pbar, so they outlive a device and a tick.    *)
(***************************************************************************)
DcprKeys == <<"util_dcpr0", "util_dcpr1", "util_dcpr2">>
PkeKeys == <<"util_pke0", "util_pke1", "util_pke2", "util_pke3", "util_pke4", "util_pke5">>
CphKeys == <<"util_cph0", "util_cph1", "util_cph2", "util_cph3">>
AthKeys == <<"util_ath0", "util_ath1", "util_ath2", "util_ath3">>
UcsKeys == <<"util_ucs0", "util_ucs1">>

Keys == {"lat_acc_avg", "util_cpr0"} \cup Range(DcprKeys) \cup Range(PkeKeys)
          \cup Range(CphKeys) \cup Range(AthKeys) \cup Range(UcsKeys)

\* A local that no statement has assigned yet.
Unbound == "<unbound>"

NoLocals == [k \in Keys |-> Unbound]

\* while i < len(output): the locals afterwards, or an IndexError at output[i+1].
RECURSIVE DumpLoop(_, _, _)
DumpLoop(raw, output, i) ==
  IF i > Len(output) THEN [err |-> FALSE, raw |-> raw]
  ELSE IF output[i] \in Keys THEN
    IF i + 1 > Len(output) THEN [err |-> TRUE, raw |-> raw]
    ELSE DumpLoop([raw EXCEPT ![output[i]] = output[i + 1]], output, i + 1)
  ELSE DumpLoop(raw, output, i + 1)

(***************************************************************************)
(* int() and str(): int(tok) is the integer whose decimal text is tok.     *)
(***************************************************************************)
IntDomain == -60..99

IntText == [n \in IntDomain |-> ToString(n)]

IntTexts == {IntText[n] : n \in IntDomain}

IsInt(tok) == tok \in IntTexts

\* The inverse of IntText, tabulated.
TextInt == [t \in IntTexts |-> CHOOSE n \in IntDomain : IntText[n] = t]

IntOf(tok) == TextInt[tok]

Str(n) == ToString(n)

(***************************************************************************)
(* Utilization per category (lines 175-194).                               *)
(***************************************************************************)
\* Floor division in place of round().
Round_m(s, n) == s \div n

\* round(s / n) for s > 0: Python 3 rounds halves to the even neighbour.
Round(s, n) ==
  LET q == s \div n
      r == s % n
  IN IF 2 * r < n THEN q
     ELSE IF 2 * r > n THEN q + 1
     ELSE IF q % 2 = 0 THEN q ELSE q + 1

\* if u > 0: u = round(u / n)
Aggregate(s, n) == IF s > 0 THEN Round(s, n) ELSE s

\* int(a) + int(b) + ...
RECURSIVE SumOf(_, _)
SumOf(raw, ks) ==
  IF ks = <<>> THEN 0 ELSE IntOf(raw[ks[1]]) + SumOf(raw, SubSeq(ks, 2, Len(ks)))

\* The literal each sum is divided by.
DcprUnits == 3
PkeUnits == 6
CphUnits == 4
AthUnits == 4
UcsUnits == 2

decompress_utilization(raw) == Aggregate(SumOf(raw, DcprKeys), DcprUnits)
pke_utilization(raw) == Aggregate(SumOf(raw, PkeKeys), PkeUnits)
cph_utilization(raw) == Aggregate(SumOf(raw, CphKeys), CphUnits)
ath_utilization(raw) == Aggregate(SumOf(raw, AthKeys), AthUnits)
usc_utilization(raw) == Aggregate(SumOf(raw, UcsKeys), UcsUnits)

\* Lines 175-195 raise (NameError on an unassigned local, ValueError in int()).
UtilRaises(raw) ==
  \/ \E k \in Keys \ {"util_cpr0"} : ~IsInt(raw[k])

\* device[0] + '\t0\t0\t0\t0\t0\t00                 ' (line 196)
ZeroRow(name) ==
  [name |-> name, comp |-> "0", decomp |-> "0", pke |-> "0", cph |-> "0",
   ath |-> "0", ucs |-> "00", lat |-> ""]

\* The text of line 198.
Row(name, raw) ==
  [name |-> name, comp |-> raw["util_cpr0"],
   decomp |-> Str(decompress_utilization(raw)), pke |-> Str(pke_utilization(raw)),
   cph |-> Str(cph_utilization(raw)), ath |-> Str(ath_utilization(raw)),
   ucs |-> Str(usc_utilization(raw)), lat |-> raw["lat_acc_avg"]]

\* window.addstr(4+count, 10, text): the rows of the screen from line 4 on.
AddStr(rows, count, text) ==
  IF count + 1 <= Len(rows) THEN [rows EXCEPT ![count + 1] = text]
  ELSE Append(rows, text)

\* Lines 175-198 for one device: the rows afterwards and whether a statement raised.
\* device[0] + '\t...' raises TypeError for the name None; line 198 raises
\* NameError when compression was never assigned.
WriteRow(rows, count, name, raw) ==
  IF UtilRaises(raw) \/ name = None THEN [err |-> TRUE, rows |-> rows]
  ELSE LET zeroed == IF IntOf(raw["lat_acc_avg"]) = 0
                     THEN AddStr(rows, count, ZeroRow(name)) ELSE rows
       IN IF raw["util_cpr0"] = Unbound THEN [err |-> TRUE, rows |-> zeroed]
          ELSE [err |-> FALSE, rows |-> AddStr(zeroed, count, Row(name, raw))]

\* set_paths[count] raises IndexError.
NoPathAt(sp, count) == count >= Len(sp)

(***************************************************************************)
(* for device in devices (lines 112-199): ds[k] is the device_data text    *)
(* that `cat` returns for the k-th device of this tick.  The result holds  *)
(* the locals, the rows, the dumps read, and whether a statement raised.   *)
(***************************************************************************)
RECURSIVE DeviceLoop(_, _, _, _, _, _, _)
DeviceLoop(devs, sp, ds, count, raw, rows, reads) ==
  IF count >= Len(devs) THEN [err |-> FALSE, raw |-> raw, rows |-> rows, reads |-> reads]
  ELSE IF NoPathAt(sp, count) THEN [err |-> TRUE, raw |-> raw, rows |-> rows, reads |-> reads]
  ELSE LET rd == [path |-> sp[count + 1], output |-> ds[count + 1]]
           d == DumpLoop(raw, ds[count + 1], 1)
           w == WriteRow(rows, count, devs[count + 1][1], d.raw)
       IN IF d.err THEN [err |-> TRUE, raw |-> d.raw, rows |-> rows, reads |-> Append(reads, rd)]
          ELSE IF w.err THEN [err |-> TRUE, raw |-> d.raw, rows |-> w.rows, reads |-> Append(reads, rd)]
          ELSE DeviceLoop(devs, sp, ds, count + 1, d.raw, w.rows, Append(reads, rd))

\* if refresh_counter % 5 == 0
RefreshEvery == 5

\* The counter tested as it was before the increment of line 106.
RefreshDue_m(n) == (n - 1) % RefreshEvery = 0

RefreshDue(n) == n % RefreshEvery = 0

(***************************************************************************)
(* What the two commands of EnableTelemetry and `cat device_data` print.   *)
(***************************************************************************)
Dev(name, type, bsf, state) ==
  <<name, Tok_type, type, Tok_bsf, bsf, Tok_state, state>>

StatusOutputs ==
  { <<>>,
    Dev(Tok_qat_dev0, Tok_4xxx, Bsf_6b, Tok_up),
    Dev(Tok_qat_dev0, Tok_4xxx, Bsf_6b, Tok_up) \o Dev(Tok_qat_dev1, Tok_4xxx, Bsf_70, Tok_up),
    Dev(Tok_qat_dev0, Tok_4xxx, Bsf_6b, Tok_down) \o Dev(Tok_qat_dev1, Tok_4xxx, Bsf_70, Tok_up),
    Dev(Tok_qat_dev0, Tok_4xxx, Bsf_70, Tok_up) \o Dev(Tok_qat_dev1, Tok_4xxx, Bsf_6b, Tok_up),
    <<Tok_qat_dev0, Tok_type, Tok_4xxx, Tok_state, Tok_up>>,
    <<Tok_type, Tok_4xxx, Tok_bsf, Bsf_6b, Tok_state, Tok_up>>,
    Dev(Tok_qat_dev0, Tok_4xxx, Bsf_6b, Tok_up) \o <<Tok_qat_dev1, Tok_type>> }

FindOutputs ==
  { <<>>, <<Path_6b>>, <<Path_70, Path_6b>>, <<Path_6b, Path_70>>, <<Path_nocolon>> }

KeyOrder ==
  <<"lat_acc_avg", "util_cpr0">> \o DcprKeys \o PkeKeys \o CphKeys \o AthKeys \o UcsKeys

\* The text `key value key value ...` for the values v.
DumpOf(v) ==
  [j \in 1..(2 * Len(KeyOrder)) |->
     IF j % 2 = 1 THEN KeyOrder[(j + 1) \div 2] ELSE v[KeyOrder[j \div 2]]]

Idle == [k \in Keys |-> "0"]

Busy ==
  [Idle EXCEPT !["lat_acc_avg"] = "7", !["util_cpr0"] = "42",
               !["util_dcpr0"] = "2", !["util_dcpr1"] = "2", !["util_dcpr2"] = "1",
               !["util_pke0"] = "1", !["util_pke1"] = "1", !["util_pke2"] = "1",
               !["util_cph0"] = "1", !["util_cph1"] = "1",
               !["util_ath0"] = "3", !["util_ath1"] = "3",
               !["util_ucs0"] = "3", !["util_ucs1"] = "2"]

DumpIdle == DumpOf(Idle)
DumpBusy == <<"sample_cnt", "5">> \o DumpOf(Busy)
\* util_ucs1 and its value are missing.
DumpNoUcs1 == SubSeq(DumpOf(Idle), 1, 2 * Len(KeyOrder) - 2)
\* The text ends behind the key util_ucs1.
DumpTruncated == SubSeq(DumpOf(Busy), 1, 2 * Len(KeyOrder) - 1)

DumpSet == {DumpIdle, DumpBusy, DumpNoUcs1, DumpTruncated}

(***************************************************************************)
(* State.  pc is the position of the one thread: "main" before line 216,   *)
(* "render" at the top of the while loop of pbar, "refresh" at line 206,   *)
(* "stopped" once the process has exited.  adf holds output_adf and the    *)
(* locals of the device loop of the last EnableTelemetry call, control the *)
(* control writes it made, et_result how it left, cycles how many calls    *)
(* were made.  window is the screen from line 4 on, dumps_read the         *)
(* device_data texts read in the last tick.  exit_status is Running until  *)
(* the process exits.  original_array is the list find printed in the last *)
(* call; raised is the exception the last step raised and where.           *)
(***************************************************************************)
Running == -1

NoRaise == [exc |-> "none", at |-> "none"]

\* The loop of the control writes was left by `except: break` (line 97): the
\* bare except catches the failure of the command and a KeyboardInterrupt alike.
WriteExceptions == {"CalledProcessError", "KeyboardInterrupt"}

\* How the loop of the control writes can go: every write succeeds (failAt = 0)
\* or the write of entry failAt raises exc.
WriteOutcomes(sp) ==
  {[failAt |-> 0, exc |-> "none"]}
    \cup {[failAt |-> k, exc |-> e] : k \in 1..Len(sp), e \in WriteExceptions}

\* What the last call of EnableTelemetry raised.
RaisedBy(r, w) ==
  IF r.result = "exception" THEN [exc |-> "Exception", at |-> "discovery"]
  ELSE IF r.result = "quit" THEN [exc |-> "SystemExit", at |-> "discovery"]
  ELSE IF w.failAt > 0 THEN [exc |-> w.exc, at |-> "control"]
  ELSE NoRaise

\* The loop left without a break.
ExceptBreak_m == "render"

\* except KeyboardInterrupt: break / except: break (lines 209-212): pbar returns.
ExceptBreak == "stopped"

Blank == [rows |-> <<>>, sep |-> 0]

Init ==
  /\ pc = "main"
  /\ devices = <<>>
  /\ paths = <<>>
  /\ set_paths = <<>>
  /\ adf = AdfStart(<<>>)
  /\ original_array = <<>>
  /\ raised = NoRaise
  /\ control = <<>>
  /\ et_result = "none"
  /\ cycles = 0
  /\ refresh_counter = 0
  /\ locals = NoLocals
  /\ window = Blank
  /\ dumps_read = <<>>
  /\ stdout = <<>>
  /\ stderr = <<>>
  /\ exit_status = Running

\* The assignments EnableTelemetry makes to the globals, and the control
\* writes of a call that gets to line 91, the first failing one at failAt.
Discovered(r, failAt) ==
  /\ devices' = r.devices
  /\ paths' = r.paths
  /\ set_paths' = r.set_paths
  /\ adf' = r.adf
  /\ original_array' = r.original_array
  /\ control' = IF r.result = "ok" THEN EnableWrites(r.set_paths, failAt) ELSE <<>>
  /\ et_result' = r.result
  /\ cycles' = cycles + 1

\* Lines 215-217 up to the call of pbar: SystemExit and any other exception
\* leave the interpreter, quit() with status 0, an exception with status 1.
MainFrom(statuses, founds) ==
  /\ pc = "main"
  /\ \E status \in statuses, found \in founds :
       LET r == EnableTelemetry(status, found, Lists(devices, paths, set_paths))
       IN \E w \in WriteOutcomes(r.set_paths) :
            /\ Discovered(r, w.failAt)
            /\ raised' = RaisedBy(r, w)
            /\ pc' = IF r.result = "ok" THEN "render" ELSE "stopped"
            /\ stdout' = IF r.result = "quit" THEN Append(stdout, NoEndpointsMsg) ELSE stdout
            /\ stderr' = IF r.result = "exception" THEN Append(stderr, Traceback) ELSE stderr
            /\ exit_status' = IF r.result = "quit" THEN 0
                              ELSE IF r.result = "exception" THEN 1 ELSE exit_status
  /\ UNCHANGED <<refresh_counter, locals, window, dumps_read>>

Main == MainFrom(StatusOutputs, FindOutputs)

\* One pass of the while loop of pbar up to the test of line 205.  A statement
\* that raises ends the loop at `except: break`, pbar returns and the process
\* exits with status 0.
RenderTick ==
  /\ pc = "render"
  /\ refresh_counter < MaxTicks
  /\ refresh_counter' = refresh_counter + 1
  /\ \E ds \in [1..Len(devices) -> DumpSet] :
       LET r == DeviceLoop(devices, set_paths, ds, 0, locals, window.rows, <<>>)
       IN /\ locals' = r.raw
          /\ dumps_read' = r.reads
          /\ window' = [rows |-> r.rows,
                        sep |-> IF r.err THEN window.sep ELSE Len(devices) + 1]
          /\ raised' = IF r.err THEN [exc |-> "Exception", at |-> "render"] ELSE NoRaise
          /\ pc' = IF r.err THEN ExceptBreak
                   ELSE IF RefreshDue(refresh_counter + 1) THEN "refresh" ELSE "render"
          /\ exit_status' = IF r.err THEN 0 ELSE exit_status
  /\ UNCHANGED <<devices, paths, set_paths, adf, original_array, control, et_result,
                 cycles, stdout, stderr>>

\* Lines 206-207: window.clear() and EnableTelemetry() inside the try block:
\* the bare except catches SystemExit like any exception.  An interrupt that
\* arrives during a control write is caught inside EnableTelemetry (line 97)
\* and the call returns.
Refresh ==
  /\ pc = "refresh"
  /\ window' = Blank
  /\ \E status \in StatusOutputs, found \in FindOutputs :
       LET r == EnableTelemetry(status, found, Lists(devices, paths, set_paths))
       IN \E w \in WriteOutcomes(r.set_paths) :
            /\ Discovered(r, w.failAt)
            /\ raised' = RaisedBy(r, w)
            /\ pc' = IF r.result = "ok" THEN "render" ELSE ExceptBreak
            /\ stdout' = IF r.result = "quit" THEN Append(stdout, NoEndpointsMsg) ELSE stdout
            /\ exit_status' = IF r.result = "ok" THEN exit_status ELSE 0
  /\ UNCHANGED <<refresh_counter, locals, dumps_read, stderr>>

\* KeyboardInterrupt inside the try block but outside a control write (line 209).
Interrupt ==
  /\ pc \in {"render", "refresh"}
  /\ raised' = [exc |-> "KeyboardInterrupt",
                at |-> IF pc = "render" THEN "render" ELSE "discovery"]
  /\ pc' = ExceptBreak
  /\ exit_status' = 0
  /\ UNCHANGED <<devices, paths, set_paths, adf, original_array, control, et_result, cycles,
                 refresh_counter, locals, window, dumps_read, stdout, stderr>>

Next == Main \/ RenderTick \/ Refresh \/ Interrupt

Spec == Init /\ [][Next]_vars

(***************************************************************************)
(* Properties.                                                             *)
(***************************************************************************)

\* C1: a render tick is only performed with a non-empty set_paths: every tick
\* starts and ends with endpoints, a discovery cycle that found none has
\* stopped the process, and no tick follows it.
C1_TickHasEndpoints ==
  [][ /\ refresh_counter' # refresh_counter => set_paths # <<>> /\ set_paths' # <<>>
      /\ pc' \in {"render", "refresh"} => set_paths' # <<>>
      /\ et_result' = "quit" => pc' = "stopped"
      /\ et_result = "quit" => refresh_counter' = refresh_counter ]_vars

\* A periodic discovery found no endpoint after five ticks and stopped the process.
C1_Witness ==
  /\ cycles = 2
  /\ et_result = "quit"
  /\ set_paths = <<>>
  /\ refresh_counter = 5
  /\ pc = "stopped"

\* C2: when the first discovery cycle leaves set_paths empty, the process is
\* stopped and no render tick was performed: the tick counter is 0 and nothing
\* was written to the window.
C2_NoTickAfterEmptyStart ==
  (cycles = 1 /\ set_paths = <<>>) =>
     (pc = "stopped" /\ refresh_counter = 0 /\ window = Blank /\ dumps_read = <<>>)

\* Empty status output and no telemetry path: the first call quits.
C2_Witness ==
  /\ cycles = 1
  /\ adf.out = <<>>
  /\ paths = <<>>
  /\ et_result = "quit"
  /\ pc = "stopped"
  /\ refresh_counter = 0

\* C3: a discovery cycle that finds no endpoint ends the process with a
\* non-zero exit status and the message on the standard error stream.
C3_FatalExitNonZeroOnStderr ==
  et_result = "quit" =>
     (pc = "stopped" /\ exit_status # 0 /\ \E k \in 1..Len(stderr) : stderr[k] = NoEndpointsMsg)

\* C4: EnableTelemetry is called again after render tick 5, 10, 15, ... and
\* after no other tick: at the top of the render loop 1 + (ticks div 5) calls
\* were made, and the call of line 207 is only reached with a tick count that
\* is a positive multiple of 5 and with (ticks div 5) calls made.
C4_RefreshEveryFifthTick ==
  /\ pc = "render" => cycles = 1 + (refresh_counter \div 5)
  /\ pc = "refresh" => (refresh_counter > 0 /\ refresh_counter % 5 = 0
                        /\ cycles = refresh_counter \div 5)

\* Ten ticks were rendered and the third discovery cycle has completed.
C4_Witness ==
  /\ pc = "render"
  /\ refresh_counter = 10
  /\ cycles = 3

\* C5: after a discovery cycle that completed (returned or quit), a path of
\* the path list is in set_paths exactly if some device of the fresh device
\* list has a bus_id that occurs in it as a contiguous piece of text, and
\* set_paths holds nothing but located paths.
C5_EndpointIffBusInPath ==
  et_result \in {"ok", "quit"} =>
    /\ \A p \in Range(paths) :
         (p \in Range(set_paths)) <=>
           (\E d \in Range(devices) :
               /\ d[2] # None
               /\ \E from \in 1..(Len(p) + 1), to \in 0..Len(p) :
                    /\ to - from + 1 = Len(d[2])
                    /\ \A j \in 1..Len(d[2]) : p[from + j - 1] = d[2][j])
    /\ Range(set_paths) \subseteq Range(paths)

\* One device on bus 6b, two located paths: one is an endpoint, the other is not.
C5_Witness ==
  /\ et_result = "ok"
  /\ Len(devices) = 1
  /\ devices[1][2] = <<"6", "b">>
  /\ Range(paths) = {Path_6b, Path_70}
  /\ set_paths = <<Path_6b>>

\* C6: a render tick in which a dump lacks an expected key, and nothing else
\* fails, does not stop the loop, and a row is written for every device.
C6_MissingKeyKeepsLoop ==
  [][ ( /\ refresh_counter' = refresh_counter + 1
        /\ Len(set_paths) >= Len(devices)
        /\ \A d \in Range(devices) : d[1] # None
        /\ \A k \in 1..Len(dumps_read') :
              /\ dumps_read'[k].output # <<>>
              /\ dumps_read'[k].output[Len(dumps_read'[k].output)] \notin Keys
              /\ \A j \in 1..Len(dumps_read'[k].output) :
                    \/ dumps_read'[k].output[j] \in Keys
                    \/ dumps_read'[k].output[j] = "sample_cnt"
                    \/ IsInt(dumps_read'[k].output[j])
        /\ \E k \in 1..Len(dumps_read') :
              \E key \in Keys : key \notin Range(dumps_read'[k].output) )
      => (pc' # "stopped" /\ Len(window'.rows) = Len(devices)) ]_vars

\* C7: a discovery cycle that returned has attempted the control write of
\* every endpoint of set_paths, whether or not one of the writes failed.
C7_EveryEndpointWritten ==
  et_result = "ok" =>
    \A k \in 1..Len(set_paths) : \E j \in 1..Len(control) : control[j].path = set_paths[k]

(***************************************************************************)
(* The device loop of EnableTelemetry taken one token at a time, on every  *)
(* status text made of at most MaxFrags fragments.                         *)
(***************************************************************************)
Fragments ==
  { <<Tok_qat_dev0>>, <<Tok_qat_dev1>>,
    <<Tok_type, Tok_4xxx>>, <<Tok_type, Tok_c6xx>>, <<Tok_type>>,
    <<Tok_bsf, Bsf_6b>>, <<Tok_bsf, Bsf_short>>, <<Tok_bsf>>,
    <<Tok_state, Tok_up>>, <<Tok_state, Tok_down>>, <<Tok_state>> }

RECURSIVE Streams(_)
Streams(n) ==
  IF n = 0 THEN {<<>>}
  ELSE Streams(n - 1) \cup {s \o f : s \in Streams(n - 1), f \in Fragments}

InitParse ==
  /\ pc = "adf"
  /\ devices = <<>>
  /\ paths = <<>>
  /\ set_paths = <<>>
  /\ \E out \in Streams(MaxFrags) : adf = AdfStart(out)
  /\ original_array = <<>>
  /\ raised = NoRaise
  /\ control = <<>>
  /\ et_result = "none"
  /\ cycles = 0
  /\ refresh_counter = 0
  /\ locals = NoLocals
  /\ window = Blank
  /\ dumps_read = <<>>
  /\ stdout = <<>>
  /\ stderr = <<>>
  /\ exit_status = Running

\* One pass of `while i < len(output_adf)` (lines 51-69).
AdfToken ==
  /\ pc = "adf"
  /\ ~AdfDone(adf)
  /\ adf' = AdfStep(adf)
  /\ devices' = DevStep(adf, devices)
  /\ UNCHANGED <<pc, paths, set_paths, original_array, control, et_result, cycles,
                 refresh_counter, locals, window, dumps_read, raised,
                 stdout, stderr, exit_status>>

NextParse == AdfToken

SpecParse == InitParse /\ [][NextParse]_vars

(***************************************************************************)
(* The first call of EnableTelemetry on every status text of at most       *)
(* MaxFrags fragments: the text `adf_ctl status` will print is drawn in    *)
(* the initial state (adf.out) and the call reads it.                      *)
(***************************************************************************)
InitDiscover ==
  /\ pc = "main"
  /\ devices = <<>>
  /\ paths = <<>>
  /\ set_paths = <<>>
  /\ \E out \in Streams(MaxFrags) : adf = AdfStart(out)
  /\ original_array = <<>>
  /\ raised = NoRaise
  /\ control = <<>>
  /\ et_result = "none"
  /\ cycles = 0
  /\ refresh_counter = 0
  /\ locals = NoLocals
  /\ window = Blank
  /\ dumps_read = <<>>
  /\ stdout = <<>>
  /\ stderr = <<>>
  /\ exit_status = Running

MainAny == MainFrom({adf.out}, {<<>>, <<Path_6b>>, <<Path_70, Path_6b>>})

NextDiscover == MainAny

SpecDiscover == InitDiscover /\ [][NextDiscover]_vars

(***************************************************************************)
(* Lines 175-198 for one device, on the raw values of one category drawn   *)
(* from -MaxNeg..MaxRaw and every other value 0.                           *)
(***************************************************************************)
RawTokens == {Str(n) : n \in (0 - MaxNeg)..MaxRaw}

Categories == {DcprKeys, PkeKeys, CphKeys, AthKeys, UcsKeys}

LocalsOf(cat, v) ==
  [k \in Keys |-> IF \E j \in 1..Len(cat) : cat[j] = k
                  THEN v[CHOOSE j \in 1..Len(cat) : cat[j] = k] ELSE "0"]

AggLocals(tokens) == UNION {{LocalsOf(cat, v) : v \in [1..Len(cat) -> tokens]} : cat \in Categories}

InitAgg ==
  LET r == EnableTelemetry(Dev(Tok_qat_dev0, Tok_4xxx, Bsf_6b, Tok_up), <<Path_6b>>,
                           Lists(<<>>, <<>>, <<>>))
  IN /\ pc = "row"
     /\ devices = r.devices
     /\ paths = r.paths
     /\ set_paths = r.set_paths
     /\ adf = r.adf
     /\ original_array = r.original_array
     /\ raised = NoRaise
     /\ control = EnableWrites(r.set_paths, 0)
     /\ et_result = r.result
     /\ cycles = 1
     /\ refresh_counter = 1
     /\ locals \in AggLocals(RawTokens)
     /\ window = Blank
     /\ dumps_read = <<>>
     /\ stdout = <<>>
     /\ stderr = <<>>
     /\ exit_status = Running

\* Lines 175-198 for the first device.
RowStep ==
  /\ pc = "row"
  /\ LET w == WriteRow(window.rows, 0, devices[1][1], locals)
     IN /\ window' = [window EXCEPT !.rows = w.rows]
        /\ raised' = IF w.err THEN [exc |-> "Exception", at |-> "render"] ELSE NoRaise
        /\ pc' = IF w.err THEN ExceptBreak ELSE "row_done"
        /\ exit_status' = IF w.err THEN 0 ELSE exit_status
  /\ UNCHANGED <<devices, paths, set_paths, adf, original_array, control, et_result, cycles,
                 refresh_counter, locals, dumps_read, stdout, stderr>>

NextAgg == RowStep

SpecAgg == InitAgg /\ [][NextAgg]_vars

\* The integer shown in field f of the row written for the first device.
Shown(f) == IntOf(window.rows[1][f])

\* r is an integer nearest to s / n.
Nearest(r, s, n) == 2 * r * n - 2 * s <= n /\ 2 * s - 2 * r * n <= n

\* The field of the row and the number of sub-units of a category.
FieldOf(cat) ==
  CASE cat = DcprKeys -> "decomp" [] cat = PkeKeys -> "pke" [] cat = CphKeys -> "cph"
    [] cat = AthKeys -> "ath" [] cat = UcsKeys -> "ucs"

AtToken(t) == ~AdfDone(adf) /\ adf.out[adf.i + 1] = t

NextToken(t) == HasNext(adf) /\ adf.out[adf.i + 2] = t

\* The text "qat_dev" occurs in token t.
NamesDevice(t) ==
  \E k \in 1..(Len(t) - Len(QatDev) + 1) : SubSeq(t, k, k + Len(QatDev) - 1) = QatDev

\* The characters at offsets 5 and 6 of v, as far as v has them.
Chars5To6(v) == [k \in 1..(IF Len(v) >= 7 THEN 2 ELSE IF Len(v) = 6 THEN 1 ELSE 0) |-> v[5 + k]]

\* C9: when the loop is at `state:` followed by `up`, and the candidate that
\* starts at the last qat_dev token q (no `state:` between q and here) holds
\* `type:` followed by `4xxx,` and a `bsf:` followed by a value, this pass
\* appends exactly one record: the token at q and characters 5..6 of the value
\* of the candidate's last `bsf:`.
C9_UpCandidateAppendsItsRecord ==
  [][ \A q \in 1..adf.i :
        ( /\ AtToken(Tok_state) /\ NextToken(Tok_up)
          /\ NamesDevice(adf.out[q])
          /\ \A k \in (q + 1)..adf.i : adf.out[k] # Tok_state
          /\ \A k \in (q + 1)..adf.i : ~NamesDevice(adf.out[k])
          /\ \E t \in (q + 1)..adf.i : adf.out[t] = Tok_type /\ adf.out[t + 1] = Tok_4xxx
          /\ \E b \in (q + 1)..adf.i : adf.out[b] = Tok_bsf )
        => LET b == CHOOSE b \in (q + 1)..adf.i :
                       /\ adf.out[b] = Tok_bsf
                       /\ \A c \in (b + 1)..adf.i : adf.out[c] # Tok_bsf
           IN devices' = Append(devices, <<adf.out[q], Chars5To6(adf.out[b + 1])>>) ]_vars

\* qat_dev0 with type 4xxx, on bus 6b and up was parsed into its record.
C9_Witness ==
  /\ pc = "adf"
  /\ adf.out = Dev(Tok_qat_dev0, Tok_4xxx, Bsf_6b, Tok_up)
  /\ AdfDone(adf)
  /\ devices = << <<Tok_qat_dev0, <<"6", "b">> >> >>

\* C10: a pass of the loop appends a record only at a `state:` token that is
\* followed by `up`, so a candidate in any other state adds none, and the
\* device list never holds more records than the text has `state: up` pairs.
C10_OnlyUpAppends ==
  /\ [][ ~(AtToken(Tok_state) /\ NextToken(Tok_up)) => devices' = devices ]_vars
  /\ [](Len(devices) <=
          Cardinality({k \in 1..(Len(adf.out) - 1) :
                          adf.out[k] = Tok_state /\ adf.out[k + 1] = Tok_up}))

\* A telemetry-capable candidate in state down was parsed and left no record.
C10_Witness ==
  /\ pc = "adf"
  /\ adf.out = Dev(Tok_qat_dev0, Tok_4xxx, Bsf_6b, Tok_down)
  /\ AdfDone(adf)
  /\ devices = <<>>

(***************************************************************************)
(* C11: once an operator interrupt or any exception is raised while a tick *)
(* is being rendered, the loop is in Stopped at the end of that very step, *)
(* and from Stopped on no further tick is counted, no counter file is read *)
(* and no discovery cycle runs.                                            *)
(***************************************************************************)
C11_RaiseWhileRenderingStops ==
  /\ [](raised.at = "render" => pc = "stopped")
  /\ [][pc = "stopped" =>
          /\ pc' = "stopped"
          /\ refresh_counter' = refresh_counter
          /\ dumps_read' = dumps_read
          /\ cycles' = cycles]_vars

\* The operator interrupted the loop after at least two ticks were rendered.
C11_Witness ==
  /\ pc = "stopped"
  /\ raised = [exc |-> "KeyboardInterrupt", at |-> "render"]
  /\ refresh_counter >= 2
  /\ dumps_read # <<>>

\* A device_data text that holds every key the renderer reads, each followed by
\* an integer.
Complete(output) ==
  LET d == DumpLoop(NoLocals, output, 1)
  IN ~d.err /\ \A k \in Keys : IsInt(d.raw[k])

(***************************************************************************)
(* C12: the loop reaches Stopped only by an operator interrupt, by a       *)
(* discovery cycle that did not end with at least one correlated endpoint, *)
(* or in a tick in which some dump read was not complete with integer      *)
(* values; with none of the three the loop never stops.                    *)
(***************************************************************************)
C12_CleanRunNeverStops ==
  [][(pc # "stopped" /\ pc' = "stopped") =>
       \/ raised'.exc = "KeyboardInterrupt"
       \/ pc \in {"main", "refresh"} /\ et_result' # "ok"
       \/ pc = "render" /\ \E k \in 1..Len(dumps_read') : ~Complete(dumps_read'[k].output)]_vars

\* The orders in which find can print the same lines.
Orders(s) ==
  {[k \in 1..Len(s) |-> s[f[k]]] :
     f \in {g \in [1..Len(s) -> 1..Len(s)] : \A a, b \in 1..Len(s) : g[a] = g[b] => a = b}}

(***************************************************************************)
(* C13: after a discovery cycle that ran to its end, the set of entries of *)
(* set_paths is the set the same status output gives with the lines of     *)
(* find in any other order: the located paths may be permuted freely.      *)
(***************************************************************************)
C13_PathOrderIrrelevant ==
  et_result \in {"ok", "quit"} =>
    \A found \in Orders(original_array) :
      LET r == EnableTelemetry(adf.out, found, Lists(<<>>, <<>>, <<>>))
      IN r.result = et_result /\ Range(r.set_paths) = Range(set_paths)

\* find printed two paths in descending order of bus and both became endpoints.
C13_Witness ==
  /\ et_result = "ok"
  /\ original_array = <<Path_70, Path_6b>>
  /\ set_paths = <<Path_6b, Path_70>>

(***************************************************************************)
(* C14: whenever a tick can start, every device has an entry of set_paths  *)
(* at its own position (the index is never out of range) and that entry    *)
(* holds the device's bus text: no device is paired with the path of       *)
(* another device.                                                         *)
(***************************************************************************)
C14_DevicePairedWithOwnPath ==
  pc = "render" =>
    \A k \in 1..Len(devices) :
      /\ k <= Len(set_paths)
      /\ In(devices[k][2], set_paths[k])

\* The values the locals can hold when a dump is read.
PriorLocals == {Idle, Busy}

(***************************************************************************)
(* C15: the row written for a device in a tick is the row its own dump of  *)
(* that tick gives whatever the locals held before the dump was read: no   *)
(* value of the row comes from another endpoint's dump or from an earlier  *)
(* tick, also when the dump lacks a key.                                   *)
(***************************************************************************)
C15_RowFromOwnDumpOnly ==
  [][(refresh_counter' = refresh_counter + 1 /\ raised'.at # "render") =>
       \A k \in 1..Len(dumps_read') : \A prior \in PriorLocals :
         window'.rows[k] = Row(devices[k][1], DumpLoop(prior, dumps_read'[k].output, 1).raw)]_vars

\* A bus text that names no bus: None (no bsf: token) or the empty text.
NoBus(bus) == bus = None \/ bus = <<>>

(***************************************************************************)
(* C16: when the status text was read to its end and a record with no bus  *)
(* text (None, or empty because the value behind bsf: is shorter than six  *)
(* characters) is in the device list, the cycle still ends without an      *)
(* exception, and every entry of set_paths holds the bus text of a record  *)
(* that has one: the record without a bus text brings in no path.          *)
(***************************************************************************)
C16_NoBusNoEndpoint ==
  (cycles = 1 /\ ~adf.err /\ \E d \in Range(devices) : NoBus(d[2])) =>
     /\ et_result \in {"ok", "quit"}
     /\ \A p \in Range(set_paths) :
          \E d \in Range(devices) : ~NoBus(d[2]) /\ In(d[2], p)

(***************************************************************************)
(* C17: the device loop raises on no status text, however it is cut off:   *)
(* also a text that ends right behind type:, bsf: or state: is read to its *)
(* end without an error.                                                   *)
(***************************************************************************)
C17_TruncatedTextParses ==
  pc = "adf" => ~adf.err

\* Where the candidate the loop is in starts: at the last qat_dev token read,
\* or at the start of the text when none was read.
CandidateStart ==
  LET S == {k \in 1..adf.i : NamesDevice(adf.out[k])}
  IN IF S = {} THEN 1 ELSE CHOOSE k \in S : \A j \in S : j <= k

(***************************************************************************)
(* C18: a pass of the loop that appends a record is in a candidate that    *)
(* itself holds type: followed by 4xxx, and the bus text of the record is  *)
(* None or comes from a bsf: of that same candidate: neither the flag nor  *)
(* the bus of an earlier candidate is carried over a qat_dev token, also   *)
(* when the earlier candidate has no state: token.                         *)
(***************************************************************************)
C18_RecordFromOwnCandidate ==
  [][ devices' # devices =>
        LET q == CandidateStart
            rec == devices'[Len(devices')]
        IN /\ \E t \in q..adf.i : adf.out[t] = Tok_type /\ adf.out[t + 1] = Tok_4xxx
           /\ \/ rec[2] = None
              \/ \E b \in q..adf.i :
                   adf.out[b] = Tok_bsf /\ rec[2] = Chars5To6(adf.out[b + 1]) ]_vars

(***************************************************************************)
(* C19: after every discovery cycle that ran to its end the three lists    *)
(* hold what this cycle's inputs give and nothing of an earlier cycle:     *)
(* devices is the list of records of this cycle's status text, paths holds *)
(* exactly the lines find printed in this cycle, and every entry of        *)
(* set_paths is one of these lines and holds the bus text of one of these  *)
(* records, at most once per record; a render tick changes none of the     *)
(* three lists.                                                            *)
(***************************************************************************)
C19_ListsOfThisCycleOnly ==
  /\ [](et_result \in {"ok", "quit"} =>
          /\ devices = AdfLoop(AdfStart(adf.out), <<>>).devs
          /\ Len(paths) = Len(original_array)
          /\ Range(paths) = Range(original_array)
          /\ \A p \in Range(set_paths) :
               p \in Range(original_array) /\ \E d \in Range(devices) : In(d[2], p)
          /\ Len(set_paths) <= Len(paths) * Len(devices))
  /\ [][refresh_counter' # refresh_counter =>
          UNCHANGED <<devices, paths, set_paths>>]_vars

\* The fifth tick read the dumps of two devices, and the discovery cycle that
\* followed it found one device and one endpoint.
C19_Witness ==
  /\ cycles = 2
  /\ et_result = "ok"
  /\ pc = "render"
  /\ refresh_counter = 5
  /\ Len(dumps_read) = 2
  /\ Len(devices) = 1
  /\ Len(paths) = 1
  /\ Len(set_paths) = 1

====
